---- MODULE Spec2Model ----
(***************************************************************************)
(* Release-candidate discovery of create-app-release (src/index.js):       *)
(* getLatestReleasePR, extractPRNumbersFromDescription, fetchPullRequests  *)
(* and the part of run() that consumes the candidate list.                 *)
(*                                                                         *)
(* Text (titles, descriptions) is a sequence of one-character strings.     *)
(* JavaScript values that may be null or undefined are records tagged     *)
(* with their type, so that values of different types are never equal.     *)
(***************************************************************************)
EXTENDS Integers, Sequences, FiniteSets, TLC

\* ------------------------------------------------------------------------
\* Bounds of the model
\* ------------------------------------------------------------------------

\* largest number of closed pull requests in the listing
MaxPRs == 2

\* merge timestamps are 1..MaxTime
MaxTime == 2

\* longest description given to the Identifier Extractor on its own
MaxTextLen == 4

\* longest title given to the Version-Tag Matcher on its own
MaxTitleLen == 6
MaxVersionLen == 6

\* ------------------------------------------------------------------------
\* JavaScript values
\* ------------------------------------------------------------------------

Null == [t |-> "null"]

Undefined == [t |-> "undefined"]

\* a JS number and a JS string, kept apart as Set.prototype.has keeps them
Num(n) == [t |-> "number", v |-> n]

Str(s) == [t |-> "string", v |-> s]

\* a JS array holding the sequence s
Arr(s) == [t |-> "array", v |-> s]

\* an ISO-8601 timestamp string (merged_at) naming the instant n
Timestamp(n) == [t |-> "string", iso |-> n]

\* a date of null that no merge time reaches, as an invalid date would be
NewDate_NullNeverReached(x) == IF x = Null THEN MaxTime + 1 ELSE x.iso

\* new Date(x).valueOf(): new Date(null) is the epoch, instant 0
NewDate(x) == IF x = Null THEN 0 ELSE x.iso

\* SameValueZero on numbers and strings: values of different type never agree
SameValueZero(a, b) == a.t = b.t /\ a.v = b.v

\* Set.prototype.has
SetHas(S, x) == \E e \in S : SameValueZero(e, x)

\* ------------------------------------------------------------------------
\* Characters
\* ------------------------------------------------------------------------

DigitSeq == <<"0", "1", "2", "3", "4", "5", "6", "7", "8", "9">>

Digits == {DigitSeq[i] : i \in 1..10}

Letters ==
  {"a","b","c","d","e","f","g","h","i","j","k","l","m",
   "n","o","p","q","r","s","t","u","v","w","x","y","z",
   "A","B","C","D","E","F","G","H","I","J","K","L","M",
   "N","O","P","Q","R","S","T","U","V","W","X","Y","Z"}

\* \w of the regular expressions
WordChars == Digits \cup Letters \cup {"_"}

\* \s of the regular expressions (the ASCII part)
SpaceChars == {" ", "\t", "\n", "\r", "\f"}

\* [0-9a-zA-Z-] of the SemVer pattern
IdChars == Digits \cup Letters \cup {"-"}

DigitVal(c) == CHOOSE i \in 0..9 : DigitSeq[i + 1] = c

RECURSIVE ParseInt(_)
\* parseInt of a non-empty string of decimal digits
ParseInt(s) ==
  IF Len(s) = 0 THEN 0
  ELSE 10 * ParseInt(SubSeq(s, 1, Len(s) - 1)) + DigitVal(s[Len(s)])

RECURSIVE NumToString(_)
\* the decimal text a template literal gives a non-negative integer
NumToString(n) ==
  IF n < 10 THEN <<DigitSeq[n + 1]>>
  ELSE NumToString(n \div 10) \o <<DigitSeq[(n % 10) + 1]>>

\* s.replace(/[^0-9]/g, '')
OnlyDigits(s) == SelectSeq(s, LAMBDA c : c \in Digits)

\* ------------------------------------------------------------------------
\* Version-Tag Matcher: semverPattern.test(title)
\* ------------------------------------------------------------------------

\* the text between positions a and b (inclusive); empty when b < a
Sub(s, a, b) == IF b < a THEN <<>> ELSE SubSeq(s, a, b)

\* is the character at position k a word character (positions outside: no)
IsWordAt(s, k) == k >= 1 /\ k <= Len(s) /\ s[k] \in WordChars

\* \b between position k and position k+1
WordBoundary(s, k) == IsWordAt(s, k) # IsWordAt(s, k + 1)

\* (0|[1-9]\d*)
NumericId(x) ==
  /\ Len(x) >= 1
  /\ \A i \in 1..Len(x) : x[i] \in Digits
  /\ (x[1] = "0" => Len(x) = 1)

\* (?:0|[1-9]\d*|\d*[a-zA-Z-][0-9a-zA-Z-]*)
PreReleaseId(x) ==
  \/ NumericId(x)
  \/ /\ Len(x) >= 1
     /\ \A i \in 1..Len(x) : x[i] \in IdChars
     /\ \E i \in 1..Len(x) : x[i] \notin Digits

\* [0-9a-zA-Z-]+
BuildId(x) == Len(x) >= 1 /\ \A i \in 1..Len(x) : x[i] \in IdChars

RECURSIVE SplitDots(_)
\* the dot-separated parts of a text (one part more than it has dots)
SplitDots(x) ==
  IF \A i \in 1..Len(x) : x[i] # "."
  THEN <<x>>
  ELSE LET d == CHOOSE i \in 1..Len(x) :
                  x[i] = "." /\ \A j \in 1..(i - 1) : x[j] # "."
       IN <<Sub(x, 1, d - 1)>> \o SplitDots(Sub(x, d + 1, Len(x)))

\* (0|[1-9]\d*)\.(0|[1-9]\d*)\.(0|[1-9]\d*)
VersionCore(x) ==
  LET parts == SplitDots(x)
  IN Len(parts) = 3 /\ \A i \in 1..3 : NumericId(parts[i])

\* -preid(.preid)*
PreRelease(x) ==
  /\ Len(x) >= 1
  /\ x[1] = "-"
  /\ LET parts == SplitDots(Tail(x))
     IN \A i \in 1..Len(parts) : PreReleaseId(parts[i])

\* +buildid(.buildid)*
BuildMeta(x) ==
  /\ Len(x) >= 1
  /\ x[1] = "+"
  /\ LET parts == SplitDots(Tail(x))
     IN \A i \in 1..Len(parts) : BuildId(parts[i])

\* the whole pattern between its two \b, matched against exactly x
SemverToken(x) ==
  \E c \in 1..Len(x) : \E p \in c..Len(x) :
    /\ VersionCore(Sub(x, 1, c))
    /\ (p = c \/ PreRelease(Sub(x, c + 1, p)))
    /\ (p = Len(x) \/ BuildMeta(Sub(x, p + 1, Len(x))))

\* the pattern without its leading \b
SemverTest_NoLeadingBoundary(s) ==
  \E i \in 1..Len(s) : \E j \in i..Len(s) :
    /\ WordBoundary(s, j)
    /\ SemverToken(Sub(s, i, j))

\* semverPattern.test(s): some substring lying between two word boundaries
\* is a version token (the regex engine backtracks over every start and end)
SemverTest(s) ==
  \E i \in 1..Len(s) : \E j \in i..Len(s) :
    /\ WordBoundary(s, i - 1)
    /\ WordBoundary(s, j)
    /\ SemverToken(Sub(s, i, j))

\* ------------------------------------------------------------------------
\* Identifier Extractor: extractPRNumbersFromDescription
\* ------------------------------------------------------------------------

\* the last position of the longest run of digits that starts at i
\* (i - 1 when s[i] is not a digit)
DigitRunEnd(s, i) ==
  CHOOSE e \in (i - 1)..Len(s) :
    /\ \A k \in i..e : s[k] \in Digits
    /\ (e = Len(s) \/ s[e + 1] \notin Digits)

\* the lookbehind with the label taken in any letter case
AfterPRLabel_AnyCase(s, i) ==
  \E k \in 1..i :
    /\ \A w \in k..(i - 1) : s[w] \in SpaceChars
    /\ \/ k >= 3 /\ s[k - 2] \in {"P", "p"} /\ s[k - 1] \in {"R", "r"}
       \/ /\ k >= 4
          /\ s[k - 3] \in {"P", "p"}
          /\ s[k - 2] \in {"R", "r"}
          /\ s[k - 1] = ":"

\* (?<=PR:?\s*): the text before position i ends with PR, an optional colon
\* and any white space
AfterPRLabel(s, i) ==
  \E k \in 1..i :
    /\ \A w \in k..(i - 1) : s[w] \in SpaceChars
    /\ \/ k >= 3 /\ s[k - 2] = "P" /\ s[k - 1] = "R"
       \/ k >= 4 /\ s[k - 3] = "P" /\ s[k - 2] = "R" /\ s[k - 1] = ":"

\* the end of the match of /#\d+|\(#\d+\)|(?<=PR:?\s*)\d+/ that starts at
\* position i, alternatives tried in order; 0 when none matches there
MatchEndAt(s, i) ==
  LET n == Len(s)
  IN IF s[i] = "#" /\ DigitRunEnd(s, i + 1) >= i + 1
       THEN DigitRunEnd(s, i + 1)
     ELSE IF /\ s[i] = "("
             /\ i + 1 <= n
             /\ s[i + 1] = "#"
             /\ DigitRunEnd(s, i + 2) >= i + 2
             /\ DigitRunEnd(s, i + 2) + 1 <= n
             /\ s[DigitRunEnd(s, i + 2) + 1] = ")"
       THEN DigitRunEnd(s, i + 2) + 1
     ELSE IF s[i] \in Digits /\ AfterPRLabel(s, i)
       THEN DigitRunEnd(s, i)
     ELSE 0

RECURSIVE MatchAll(_, _)
\* description.match(/.../g): the matches from position i on, left to right,
\* each search resuming after the previous match
MatchAll(s, i) ==
  IF i > Len(s) THEN <<>>
  ELSE IF MatchEndAt(s, i) = 0 THEN MatchAll(s, i + 1)
  ELSE <<Sub(s, i, MatchEndAt(s, i))>> \o MatchAll(s, MatchEndAt(s, i) + 1)

\* a falsy description (null, undefined, '') gives the empty set; otherwise
\* every match is stripped to its digits and parsed to a number
extractPRNumbersFromDescription(description) ==
  IF description \in {Null, Undefined, Str(<<>>)} THEN {}
  ELSE LET prMatches == MatchAll(description.v, 1)
       IN {Num(ParseInt(OnlyDigits(prMatches[k]))) : k \in 1..Len(prMatches)}


\* ------------------------------------------------------------------------
\* The listing of closed pull requests (octokit.rest.pulls.list)
\* ------------------------------------------------------------------------

\* "Release: Version 1.0.0", the title createReleasePR gives a release
ReleaseTitle ==
  <<"R","e","l","e","a","s","e",":"," ",
    "V","e","r","s","i","o","n"," ","1",".","0",".","0">>

\* "Fix bug"
PlainTitle == <<"F","i","x"," ","b","u","g">>

Titles == {ReleaseTitle, PlainTitle}

\* "#1 (#3) #1": cites 1 twice and 3 once
CitingBody == Str(<<"#","1"," ","(","#","3",")"," ","#","1">>)

\* "PR: 2": cites 2 after a label
LabelBody == Str(<<"P","R",":"," ","2">>)

\* the description of a pull request: absent, or text
Bodies == {Null, CitingBody, LabelBody}

Branches == {Str("main"), Str("develop")}

\* merged_at: null for a pull request closed without merging
MergeTimes == {Null} \cup {Timestamp(n) : n \in 1..MaxTime}

\* what the listing says of one pull request, but its number and id; the
\* body is read of the release marker only, so the others are left without
Shapes ==
  {sh \in [title : Titles, merged_at : MergeTimes, base : [ref : Branches],
           body : Bodies] :
     sh.title = PlainTitle => sh.body = Null}

\* the pull request with number k: numbers are unique in the repository, ids
\* are unique too and are not the numbers
PullRequest(k, sh) ==
  [id |-> 1000 + k, number |-> k, title |-> sh.title,
   merged_at |-> sh.merged_at, base |-> sh.base, body |-> sh.body,
   user |-> [login |-> "dev"], created_at |-> Timestamp(0)]

RECURSIVE Paginate(_, _, _)
\* the pages of the entries prs from position i on, a page ending at every
\* position of cuts and at the last position
Paginate(prs, cuts, i) ==
  IF i > Len(prs) THEN <<>>
  ELSE LET e == CHOOSE k \in i..Len(prs) :
                  /\ k \in cuts \cup {Len(prs)}
                  /\ \A j \in i..(k - 1) : j \notin cuts
       IN <<Sub(prs, i, e)>> \o Paginate(prs, cuts, e + 1)

\* the listing of n entries of the given shapes, cut into pages at cuts:
\* entries in some order, pages non-empty; no entry at all is one empty page
Listing(n, f, cuts) ==
  IF n = 0 THEN << <<>> >>
  ELSE Paginate([k \in 1..n |-> PullRequest(k, f[k])], cuts, 1)

RECURSIVE Flatten(_)
\* the entries of all pages, in listing order
Flatten(pages) ==
  IF Len(pages) = 0 THEN <<>> ELSE Head(pages) \o Flatten(Tail(pages))

\* ------------------------------------------------------------------------
\* The Release-Candidate Filter: the callback of data.filter
\* ------------------------------------------------------------------------

\* the filter without the comparison of ids
relevantPR_NoIdentity(pr, marker, included, branch) ==
  /\ pr.merged_at # Null
  /\ ~(pr.base # Null /\ pr.base.ref # branch)
  /\ (IF marker # Null
        THEN NewDate(pr.merged_at) >= NewDate(marker.merged_at)
        ELSE TRUE)
  /\ ~SetHas(included, Str(<<"#">> \o NumToString(pr.number)))

\* the filter without the test of merged_at
relevantPR_NoMergedTest(pr, marker, included, branch) ==
  /\ ~(pr.base # Null /\ pr.base.ref # branch)
  /\ (IF marker # Null
        THEN NewDate(pr.merged_at) >= NewDate(marker.merged_at)
        ELSE TRUE)
  /\ ~SetHas(included, Str(<<"#">> \o NumToString(pr.number)))
  /\ (marker = Null \/ pr.id # marker.id)

\* the filter with a strict lower time bound
relevantPR_StrictlyAfter(pr, marker, included, branch) ==
  /\ pr.merged_at # Null
  /\ ~(pr.base # Null /\ pr.base.ref # branch)
  /\ (IF marker # Null
        THEN NewDate(pr.merged_at) > NewDate(marker.merged_at)
        ELSE TRUE)
  /\ ~SetHas(included, Str(<<"#">> \o NumToString(pr.number)))
  /\ (marker = Null \/ pr.id # marker.id)

\* the filter without the test of the base branch
relevantPR_AnyBase(pr, marker, included, branch) ==
  /\ pr.merged_at # Null
  /\ (IF marker # Null
        THEN NewDate(pr.merged_at) >= NewDate(marker.merged_at)
        ELSE TRUE)
  /\ ~SetHas(included, Str(<<"#">> \o NumToString(pr.number)))
  /\ (marker = Null \/ pr.id # marker.id)

\* the filter with the base branch tested only when one is given
relevantPR_OptionalBase(pr, marker, included, branch) ==
  /\ pr.merged_at # Null
  /\ ~(branch # Undefined /\ pr.base.ref # branch)
  /\ (IF marker # Null
        THEN NewDate(pr.merged_at) >= NewDate(marker.merged_at)
        ELSE TRUE)
  /\ ~SetHas(included, Str(<<"#">> \o NumToString(pr.number)))
  /\ (marker = Null \/ pr.id # marker.id)

\* the filter with nothing after the last release when there is no release
relevantPR_NeedsMarker(pr, marker, included, branch) ==
  /\ pr.merged_at # Null
  /\ ~(pr.base # Null /\ pr.base.ref # branch)
  /\ (IF marker # Null
        THEN NewDate(pr.merged_at) >= NewDate(marker.merged_at)
        ELSE FALSE)
  /\ ~SetHas(included, Str(<<"#">> \o NumToString(pr.number)))
  /\ (marker = Null \/ pr.id # marker.id)

\* is pr kept, given the marker, the announced numbers and the base branch
relevantPR(pr, marker, included, branch) ==
  /\ pr.merged_at # Null
  /\ ~(pr.base # Null /\ pr.base.ref # branch)
  /\ (IF marker # Null
        THEN NewDate(pr.merged_at) >= NewDate(marker.merged_at)
        ELSE TRUE)
  /\ ~SetHas(included, Str(<<"#">> \o NumToString(pr.number)))
  /\ (marker = Null \/ pr.id # marker.id)

\* data.filter(...) of one page
relevantPRs(data, marker, included, branch) ==
  SelectSeq(data, LAMBDA pr : relevantPR(pr, marker, included, branch))

\* semverPattern.test of every title that occurs in a listing, worked out
\* once for all states
TitleIsVersioned == [title \in Titles |-> SemverTest(title)]

\* the last match of the page instead of the first
recentReleasePR_Last(data) ==
  IF \E i \in 1..Len(data) : TitleIsVersioned[data[i].title]
  THEN data[CHOOSE i \in 1..Len(data) :
              /\ TitleIsVersioned[data[i].title]
              /\ \A j \in (i + 1)..Len(data) : ~TitleIsVersioned[data[j].title]]
  ELSE Null

\* data.find(pr => semverPattern.test(pr.title)): the first match, or Null
recentReleasePR(data) ==
  IF \E i \in 1..Len(data) : TitleIsVersioned[data[i].title]
  THEN data[CHOOSE i \in 1..Len(data) :
              /\ TitleIsVersioned[data[i].title]
              /\ \A j \in 1..(i - 1) : ~TitleIsVersioned[data[j].title]]
  ELSE Null

\* the message with its form chosen by the excluded count, not by the marker
CountMessage_ByCount(marker, n, excludedCount) ==
  IF excludedCount # 0
  THEN [form |-> "new merged, excluding", found |-> n,
        excluded |-> excludedCount]
  ELSE [form |-> "merged", found |-> n]

\* the text of spinner.succeed, as its form and its two counts
CountMessage(marker, n, excludedCount) ==
  IF marker # Null
  THEN [form |-> "new merged, excluding", found |-> n,
        excluded |-> excludedCount]
  ELSE [form |-> "merged", found |-> n]

\* ------------------------------------------------------------------------
\* State
\* ------------------------------------------------------------------------

VARIABLES
  listing,            \* the pages the hosting API answers with
  baseBranch,         \* third argument of fetchPullRequests
  pc,                 \* where the run is
  page,               \* the page the running scan requests next
  latestReleasePR,    \* the release marker, Null when none
  includedPRNumbers,  \* numbers the marker's description cites
  pulls,              \* candidates accumulated by fetchPullRequests
  message,            \* the count summary, Null before it is given
  runPulls,           \* what fetchPullRequests returned to run(), or Null
  selectedPRs,        \* the operator's selection
  summaryType,        \* the operator's choice of summary, Null before
  summary,            \* the text for the pull-request body, Null before
  exitCode,           \* status of process.exit, Null while running
  log,                \* what was reported as failed
  requests,           \* the page requests sent to the hosting API, in order
  input,              \* the argument of a function taken on its own
  output,             \* what that function returned, Null before
  env,                \* process.env, the two token variables
  gitConfig,          \* git config --global, the two token keys
  options,            \* program.opts()
  githubToken,        \* run()'s githubToken
  openaiToken,        \* run()'s openaiToken
  octokit,            \* the hosting API client, Null before it is made
  openai,             \* the language-model client, Null before it is made
  calls               \* the calls of configureToken so far, in order

vars ==
  <<listing, baseBranch, pc, page, latestReleasePR, includedPRNumbers,
    pulls, message, runPulls, selectedPRs, summaryType, summary, exitCode,
    log, requests, input, output, env, gitConfig, options, githubToken,
    openaiToken, octokit, openai, calls>>

\* the token phase of run()
tokenVars ==
  <<env, gitConfig, options, githubToken, openaiToken, octokit, openai,
    calls>>

\* what the steps of run() after the token phase leave alone
otherVars == <<input, output, tokenVars>>

\* ------------------------------------------------------------------------
\* Tokens: configureToken, initializeTokens
\* ------------------------------------------------------------------------

\* a value that || and if take as true
Truthy(x) == x # Null /\ x # Undefined /\ x # Str("")

\* the configuration objects of initializeTokens
GitHubConfig ==
  [envKey |-> "GITHUB_TOKEN", gitKey |-> "github.token", name |-> "GitHub"]

OpenAIConfig ==
  [envKey |-> "OPENAI_API_KEY", gitKey |-> "openai.token", name |-> "OpenAI"]

EnvKeys == {"GITHUB_TOKEN", "OPENAI_API_KEY"}

GitKeys == {"github.token", "openai.token"}

\* a variable of the environment: unset, empty, or a token
EnvValues == {Undefined, Str(""), Str("env-token")}

\* getGitConfigToken(key): the trimmed value, or null when there is none
GitValues == {Null, Str("git-token")}

\* what the operator types at the password prompt (never empty: validate)
NewToken == Str("new-token")

\* --openai-key <key>, undefined when the option is not given
OptionKeys == {Undefined, Str("option-key")}

\* how a call of configureToken can end: the token it returns, the sources
\* it went through in order, git config afterwards, and ok = FALSE when
\* saving failed, which is process.exit(1)
ConfigureOutcomes(config) ==
  IF Truthy(env[config.envKey])
  THEN {[ok |-> TRUE, token |-> env[config.envKey], steps |-> <<"env">>,
         git |-> gitConfig]}
  ELSE IF Truthy(gitConfig[config.gitKey])
  THEN {[ok |-> TRUE, token |-> gitConfig[config.gitKey],
         steps |-> <<"env", "git config">>, git |-> gitConfig]}
  ELSE {[ok |-> TRUE, token |-> NewToken,
         steps |-> <<"env", "git config", "prompt", "save">>,
         git |-> [gitConfig EXCEPT ![config.gitKey] = NewToken]],
        [ok |-> FALSE, token |-> Null,
         steps |-> <<"env", "git config", "prompt", "save">>,
         git |-> gitConfig]}

\* the record of a call: whose token, and the sources gone through
Call(config, outcome) == [name |-> config.name, steps |-> outcome.steps]

\* after the token phase of a run with both tokens in the environment and
\* no --openai-key
TokensReady ==
  /\ env = [k \in EnvKeys |-> Str("env-token")]
  /\ gitConfig = [k \in GitKeys |-> Null]
  /\ options = [openaiKey |-> Undefined]
  /\ githubToken = Str("env-token")
  /\ openaiToken = Str("env-token")
  /\ octokit = [auth |-> Str("env-token")]
  /\ openai = [apiKey |-> Str("env-token")]
  /\ calls = << [name |-> "GitHub", steps |-> <<"env">>],
                [name |-> "OpenAI", steps |-> <<"env">>],
                [name |-> "GitHub", steps |-> <<"env">>],
                [name |-> "OpenAI", steps |-> <<"env">>] >>

\* what fetchPullRequests and the selection leave alone
summaryVars == <<summaryType, summary>>

\* run() calls fetchPullRequests(owner, repo, sourceBranch); the function is
\* also taken without its third argument
Init ==
  /\ \E n \in 0..MaxPRs : \E f \in [1..n -> Shapes] :
       \E cuts \in SUBSET (1..(n - 1)) : listing = Listing(n, f, cuts)
  /\ baseBranch \in {Str("main"), Undefined}
  /\ pc = "getLatestReleasePR"
  /\ page = 1
  /\ latestReleasePR = Null
  /\ includedPRNumbers = {}
  /\ pulls = <<>>
  /\ message = Null
  /\ runPulls = Null
  /\ selectedPRs = <<>>
  /\ summaryType = Null
  /\ summary = Null
  /\ exitCode = Null
  /\ log = {}
  /\ requests = <<>>
  /\ input = Null
  /\ output = Null
  /\ TokensReady

\* ------------------------------------------------------------------------
\* Operations
\* ------------------------------------------------------------------------

\* getLatestReleasePR returns marker; fetchPullRequests extracts the
\* announced numbers and starts a fresh pagination
StartCandidateScan(marker) ==
  /\ latestReleasePR' = marker
  /\ includedPRNumbers' =
       extractPRNumbersFromDescription(
         IF marker = Null THEN Undefined ELSE marker.body)
  /\ pulls' = <<>>
  /\ page' = 1
  /\ pc' = "fetchPullRequests"

\* step (a): one page of the marker search arrives
MarkerScanPage ==
  /\ pc = "getLatestReleasePR"
  /\ page <= Len(listing)
  /\ requests' = Append(requests, [scan |-> "marker", page |-> page])
  /\ LET found == recentReleasePR(listing[page])
     IN IF found # Null THEN StartCandidateScan(found)
        ELSE IF page = Len(listing) THEN StartCandidateScan(Null)
        ELSE /\ page' = page + 1
             /\ UNCHANGED <<pc, latestReleasePR, includedPRNumbers, pulls>>
  /\ UNCHANGED otherVars
  /\ UNCHANGED summaryVars
  /\ UNCHANGED <<listing, baseBranch, message, runPulls, selectedPRs,
                 exitCode, log>>

\* step (a): the request of a page fails and ends the run
MarkerScanFail_Fatal ==
  /\ pc = "getLatestReleasePR"
  /\ page <= Len(listing)
  /\ requests' = Append(requests, [scan |-> "marker", page |-> page])
  /\ log' = log \cup {"Failed to fetch latest release PR"}
  /\ exitCode' = Num(1)
  /\ pc' = "exit"
  /\ UNCHANGED otherVars
  /\ UNCHANGED summaryVars
  /\ UNCHANGED <<listing, baseBranch, page, latestReleasePR,
                 includedPRNumbers, pulls, message, runPulls, selectedPRs>>

\* step (a): the request of a page fails; caught, logged, no marker
MarkerScanFail ==
  /\ pc = "getLatestReleasePR"
  /\ page <= Len(listing)
  /\ requests' = Append(requests, [scan |-> "marker", page |-> page])
  /\ StartCandidateScan(Null)
  /\ log' = log \cup {"Failed to fetch latest release PR"}
  /\ UNCHANGED otherVars
  /\ UNCHANGED summaryVars
  /\ UNCHANGED <<listing, baseBranch, message, runPulls, selectedPRs,
                 exitCode>>

\* step (b) keeping the candidates of the page it has just read only
CandidateScanPage_KeepsLastPage ==
  /\ pc = "fetchPullRequests"
  /\ page <= Len(listing)
  /\ requests' = Append(requests, [scan |-> "candidates", page |-> page])
  /\ pulls' = relevantPRs(listing[page], latestReleasePR,
                          includedPRNumbers, baseBranch)
  /\ IF page = Len(listing)
       THEN /\ message' = CountMessage(latestReleasePR, Len(pulls'),
                                       Cardinality(includedPRNumbers))
            /\ runPulls' = Arr(pulls')
            /\ pc' = "selectPRs"
            /\ page' = page
       ELSE /\ page' = page + 1
            /\ UNCHANGED <<message, runPulls, pc>>
  /\ UNCHANGED otherVars
  /\ UNCHANGED summaryVars
  /\ UNCHANGED <<listing, baseBranch, latestReleasePR, includedPRNumbers,
                 selectedPRs, exitCode, log>>

\* step (b): one page of the candidate scan arrives and is filtered; after
\* the last page the count is reported and the candidates are returned
CandidateScanPage ==
  /\ pc = "fetchPullRequests"
  /\ page <= Len(listing)
  /\ requests' = Append(requests, [scan |-> "candidates", page |-> page])
  /\ pulls' = pulls \o relevantPRs(listing[page], latestReleasePR,
                                   includedPRNumbers, baseBranch)
  /\ IF page = Len(listing)
       THEN /\ message' = CountMessage(latestReleasePR, Len(pulls'),
                                       Cardinality(includedPRNumbers))
            /\ runPulls' = Arr(pulls')
            /\ pc' = "selectPRs"
            /\ page' = page
       ELSE /\ page' = page + 1
            /\ UNCHANGED <<message, runPulls, pc>>
  /\ UNCHANGED otherVars
  /\ UNCHANGED summaryVars
  /\ UNCHANGED <<listing, baseBranch, latestReleasePR, includedPRNumbers,
                 selectedPRs, exitCode, log>>

\* step (b): the request of a page fails and what was accumulated is returned
CandidateScanFail_ReturnsPartial ==
  /\ pc = "fetchPullRequests"
  /\ page <= Len(listing)
  /\ requests' = Append(requests, [scan |-> "candidates", page |-> page])
  /\ log' = log \cup {"Failed to fetch pull requests"}
  /\ runPulls' = Arr(pulls)
  /\ pc' = "selectPRs"
  /\ UNCHANGED otherVars
  /\ UNCHANGED summaryVars
  /\ UNCHANGED <<listing, baseBranch, page, latestReleasePR,
                 includedPRNumbers, pulls, message, selectedPRs, exitCode>>

\* step (b): the request of a page fails; reported, process.exit(1)
CandidateScanFail ==
  /\ pc = "fetchPullRequests"
  /\ page <= Len(listing)
  /\ requests' = Append(requests, [scan |-> "candidates", page |-> page])
  /\ log' = log \cup {"Failed to fetch pull requests"}
  /\ exitCode' = Num(1)
  /\ pc' = "exit"
  /\ UNCHANGED otherVars
  /\ UNCHANGED summaryVars
  /\ UNCHANGED <<listing, baseBranch, page, latestReleasePR,
                 includedPRNumbers, pulls, message, runPulls, selectedPRs>>

\* the checkbox prompt of run(): the operator ticks at least one candidate
\* the answer of the checkbox prompt: the ticked choices, in the order of
\* the choices
TickedPRs(choices, ticked) ==
  [k \in 1..Cardinality(ticked) |->
     choices[CHOOSE i \in ticked : Cardinality({j \in ticked : j < i}) = k - 1]]

SelectPRs ==
  /\ pc = "selectPRs"
  /\ \E ticked \in SUBSET (1..Len(runPulls.v)) :
       /\ ticked # {}
       /\ selectedPRs' = TickedPRs(runPulls.v, ticked)
  /\ pc' = "summaryType"
  /\ UNCHANGED otherVars
  /\ UNCHANGED summaryVars
  /\ UNCHANGED <<listing, baseBranch, page, latestReleasePR,
                 includedPRNumbers, pulls, message, runPulls, exitCode, log,
                 requests>>

\* new Date(x).toLocaleDateString(): the day of the instant, in the form
\* of the host's locale
LocaleDateString(x) == <<"day ">> \o NumToString(NewDate(x))

\* `#${pr.number} - ${pr.title} (by [@${login}](https://github.com/${login})
\* on ${date})`, as the pieces of the text in order
FallbackLine(pr) ==
  <<"#">> \o NumToString(pr.number) \o <<" - ">> \o pr.title
    \o <<" (by [@", pr.user.login, "](https://github.com/", pr.user.login,
         ") on ">>
    \o LocaleDateString(pr.created_at) \o <<")">>

RECURSIVE FallbackListing_Reversed(_)
\* the listing with the last selected pull request first
FallbackListing_Reversed(prs) ==
  IF Len(prs) = 0 THEN <<>>
  ELSE IF Len(prs) = 1 THEN FallbackLine(prs[1])
  ELSE FallbackLine(prs[Len(prs)]) \o <<"\n">>
         \o FallbackListing_Reversed(SubSeq(prs, 1, Len(prs) - 1))

RECURSIVE FallbackListing(_)
\* selectedPRs.map(...).join('\n')
FallbackListing(prs) ==
  IF Len(prs) = 0 THEN <<>>
  ELSE IF Len(prs) = 1 THEN FallbackLine(prs[1])
  ELSE FallbackLine(prs[1]) \o <<"\n">> \o FallbackListing(Tail(prs))

\* response.choices[0].message.content of a well-formed response
AiContent == Str(<<"### Features">>)

\* how openai.chat.completions.create can fail to give a summary: the call
\* throws, or the response has no choices[0].message.content
SummaryFailures == {"transport error", "Invalid API response structure"}

\* the list prompt of run(): AI summary, or the plain listing
ChooseSummaryType ==
  /\ pc = "summaryType"
  /\ \E type \in {"ai", "list"} :
       /\ summaryType' = Str(type)
       /\ IF type = "ai"
            THEN pc' = "generateSummary" /\ summary' = summary
            ELSE /\ pc' = "versionPrompt"
                 /\ summary' = Str(FallbackListing(selectedPRs))
  /\ UNCHANGED otherVars
  /\ UNCHANGED <<listing, baseBranch, page, latestReleasePR,
                 includedPRNumbers, pulls, message, runPulls, selectedPRs,
                 exitCode, log, requests>>

\* generateSummary: the language model answers with content
GenerateSummaryOk ==
  /\ pc = "generateSummary"
  /\ summary' = AiContent
  /\ pc' = "versionPrompt"
  /\ UNCHANGED otherVars
  /\ UNCHANGED <<listing, baseBranch, page, latestReleasePR,
                 includedPRNumbers, pulls, message, runPulls, selectedPRs,
                 summaryType, exitCode, log, requests>>

\* generateSummary: the call fails; reported, and the operator is asked
\* whether to use the simple list
GenerateSummaryFail ==
  /\ pc = "generateSummary"
  /\ \E failure \in SummaryFailures :
       log' = log \cup {"Failed to generate summary", failure}
  /\ pc' = "useFallback"
  /\ UNCHANGED otherVars
  /\ UNCHANGED <<listing, baseBranch, page, latestReleasePR,
                 includedPRNumbers, pulls, message, runPulls, selectedPRs,
                 summaryType, summary, exitCode, requests>>

\* the confirm prompt of generateSummary's catch: the simple list, or
\* process.exit(1)
FallbackPrompt ==
  /\ pc = "useFallback"
  /\ \E useFallback \in BOOLEAN :
       IF useFallback
         THEN /\ summary' = Str(FallbackListing(selectedPRs))
              /\ pc' = "versionPrompt"
              /\ exitCode' = exitCode
         ELSE /\ exitCode' = Num(1)
              /\ pc' = "exit"
              /\ summary' = summary
  /\ UNCHANGED otherVars
  /\ UNCHANGED <<listing, baseBranch, page, latestReleasePR,
                 includedPRNumbers, pulls, message, runPulls, selectedPRs,
                 summaryType, log, requests>>

Next ==
  \/ MarkerScanPage
  \/ MarkerScanFail
  \/ CandidateScanPage
  \/ CandidateScanFail
  \/ SelectPRs

Spec == Init /\ [][Next]_vars

\* ------------------------------------------------------------------------
\* The summary step of run() and generateSummary, taken on their own: they
\* read the selection only
\* ------------------------------------------------------------------------

\* what can be ticked: run() offers pull requests merged into the source
\* branch
TickableShapes ==
  {sh \in Shapes : sh.merged_at # Null /\ sh.base.ref = Str("main")}

InitSummary ==
  /\ listing = << <<>> >>
  /\ baseBranch = Str("main")
  /\ page = 1
  /\ latestReleasePR = Null
  /\ includedPRNumbers = {}
  /\ pulls = <<>>
  /\ message = Null
  /\ runPulls = Null
  /\ \E n \in 1..MaxPRs : \E f \in [1..n -> TickableShapes] :
       \E ticked \in SUBSET (1..n) :
         /\ ticked # {}
         /\ selectedPRs = TickedPRs([k \in 1..n |-> PullRequest(k, f[k])],
                                    ticked)
  /\ summaryType = Null
  /\ summary = Null
  /\ exitCode = Null
  /\ log = {}
  /\ requests = <<>>
  /\ input = Null
  /\ output = Null
  /\ TokensReady
  /\ pc = "summaryType"

NextSummary ==
  \/ ChooseSummaryType
  \/ GenerateSummaryOk
  \/ GenerateSummaryFail
  \/ FallbackPrompt

SpecSummary == InitSummary /\ [][NextSummary]_vars

\* ------------------------------------------------------------------------
\* Notions the properties are stated with
\* ------------------------------------------------------------------------

\* the closed pull requests of the listing, in listing order
AllPRs == Flatten(listing)

\* the entries of a sequence, as a set
Range(s) == {s[i] : i \in 1..Len(s)}

\* fetchPullRequests has returned its candidates to run()
Returned == runPulls # Null

\* the candidates returned, as a set
CandidateSet == IF Returned THEN Range(runPulls.v) ELSE {}

\* the numbers the announced set holds
AnnouncedNumbers == {e.v : e \in includedPRNumbers}

\* step (a) found a release marker
MarkerFound == latestReleasePR # Null

\* the candidate scan is running or is over
InStepB == pc \notin {"getLatestReleasePR"}

\* ------------------------------------------------------------------------
\* Properties of the Release-Candidate Filter
\* ------------------------------------------------------------------------

\* C1: the candidates returned by fetchPullRequests hold no pull request
\* whose number is in the set extractPRNumbersFromDescription gave for the
\* marker's description.
C1_AnnouncedExcluded ==
  Returned => \A pr \in CandidateSet : pr.number \notin AnnouncedNumbers

\* C2: once step (a) has found a marker, no entry accumulated by step (b) is
\* the marker, after every page.
C2_MarkerExcluded ==
  MarkerFound =>
    \A i \in 1..Len(pulls) :
      pulls[i].id # latestReleasePR.id /\ pulls[i] # latestReleasePR

\* C2 witness: the marker is the second entry, on a second page, is merged
\* and targets the base branch, and the scan returned another candidate.
C2_Witness ==
  /\ Returned
  /\ MarkerFound
  /\ Len(listing) = 2
  /\ latestReleasePR = listing[2][1]
  /\ latestReleasePR.merged_at # Null
  /\ latestReleasePR.base.ref = baseBranch
  /\ Len(pulls) = 1

\* C3: after every page of step (b), every accumulated candidate has a merge
\* timestamp.
C3_OnlyMerged == \A i \in 1..Len(pulls) : pulls[i].merged_at # Null

\* C3 witness: the scan returned a candidate and left out a pull request
\* that was closed without merging, targets the base branch and is not the
\* marker.
C3_Witness ==
  /\ Returned
  /\ Len(pulls) >= 1
  /\ \E pr \in Range(AllPRs) :
       /\ pr.merged_at = Null
       /\ pr.base.ref = baseBranch
       /\ pr # latestReleasePR

\* C4: with a marker merged at T, a merged pull request that is not the
\* marker, is not announced and targets the base branch is a candidate
\* exactly when it was merged at T or later.
C4_InclusiveTimeBound ==
  (Returned /\ MarkerFound /\ latestReleasePR.merged_at # Null) =>
    \A pr \in Range(AllPRs) :
      ( /\ pr.merged_at # Null
        /\ pr.id # latestReleasePR.id
        /\ pr.number \notin AnnouncedNumbers
        /\ pr.base.ref = baseBranch ) =>
      ( pr \in CandidateSet <=>
          NewDate(pr.merged_at) >= NewDate(latestReleasePR.merged_at) )

\* C4 witness: a pull request merged at exactly the marker's merge time was
\* returned as a candidate.
C4_Witness ==
  /\ Returned
  /\ MarkerFound
  /\ latestReleasePR.merged_at # Null
  /\ \E pr \in CandidateSet :
       /\ pr.merged_at = latestReleasePR.merged_at
       /\ pr.number \notin AnnouncedNumbers

\* C5: called with base branch B, fetchPullRequests returns only pull
\* requests whose base branch is B.
C5_BaseBranchOnly ==
  (Returned /\ baseBranch # Undefined) =>
    \A pr \in CandidateSet : pr.base.ref = baseBranch

\* C5 witness: a merged pull request of another base branch was left out
\* and one of the base branch was returned.
C5_Witness ==
  /\ Returned
  /\ baseBranch # Undefined
  /\ CandidateSet # {}
  /\ \E pr \in Range(AllPRs) :
       /\ pr.merged_at # Null
       /\ pr.base.ref # baseBranch
       /\ pr # latestReleasePR
       /\ pr \notin CandidateSet

\* ------------------------------------------------------------------------
\* Properties of the Candidate Fetcher
\* ------------------------------------------------------------------------

\* pr is merged and passes the marker, time-bound and announced-set steps
PassesOtherSteps(pr) ==
  /\ pr.merged_at # Null
  /\ pr.number \notin AnnouncedNumbers
  /\ MarkerFound =>
       /\ pr.id # latestReleasePR.id
       /\ NewDate(pr.merged_at) >= NewDate(latestReleasePR.merged_at)

\* C6 as claimed: called without a base branch, fetchPullRequests returns
\* the merged pull requests of every base branch that pass the marker,
\* time-bound and announced-set steps.
C6_NoConstraintKeepsAll ==
  (Returned /\ baseBranch = Undefined) =>
    \A pr \in Range(AllPRs) : PassesOtherSteps(pr) => pr \in CandidateSet

\* C6 amended: called without a base branch, fetchPullRequests discards
\* every entry on base-branch grounds: no candidate is accumulated on any
\* page and the list returned is empty.
C6_NoConstraintKeepsNone ==
  baseBranch = Undefined =>
    /\ pulls = <<>>
    /\ Returned => runPulls.v = <<>> /\ message.found = 0

\* C6 witness: fetchPullRequests has returned from a call without a base
\* branch on a listing with a pull request that passes every other step.
C6_Witness ==
  /\ Returned
  /\ baseBranch = Undefined
  /\ \E pr \in Range(AllPRs) : PassesOtherSteps(pr)

\* no title of the listing matches the Version-Tag Matcher
NoVersionedTitle == \A pr \in Range(AllPRs) : ~TitleIsVersioned[pr.title]

\* the merged entries of prs whose base branch is the one asked for
MergedOnBase(prs) ==
  SelectSeq(prs, LAMBDA pr : pr.merged_at # Null /\ pr.base.ref = baseBranch)

\* C7: when no title of the listing matches the Version-Tag Matcher, the
\* candidates returned are exactly the merged pull requests of the base
\* branch, the announced set is empty (excluded count 0) and the count
\* summary has the form without an excluded count.
C7_NoMarkerPath ==
  (Returned /\ NoVersionedTitle) =>
    /\ runPulls.v = MergedOnBase(AllPRs)
    /\ includedPRNumbers = {}
    /\ Cardinality(includedPRNumbers) = 0
    /\ message = [form |-> "merged", found |-> Len(MergedOnBase(AllPRs))]

\* C7 witness: no page failed, the listing has two entries without a version
\* in the title, one of them was returned and the other was not.
C7_Witness ==
  /\ Returned
  /\ NoVersionedTitle
  /\ log = {}
  /\ Len(AllPRs) = 2
  /\ Len(runPulls.v) = 1

\* a page request of the marker search failed
MarkerSearchFailed == "Failed to fetch latest release PR" \in log

\* a page request of the candidate scan failed
CandidateScanFailed == "Failed to fetch pull requests" \in log

\* C8: after a failed page request of the marker search there is no marker,
\* the run goes on with step (b) from the first page, what step (b)
\* accumulates and returns is what it does without a marker, and the exit
\* status is not set by this failure.
C8_MarkerFailureDegrades ==
  MarkerSearchFailed =>
    /\ latestReleasePR = Null
    /\ includedPRNumbers = {}
    /\ pc # "getLatestReleasePR"
    /\ pc = "fetchPullRequests" =>
         pulls = MergedOnBase(Flatten(SubSeq(listing, 1, page - 1)))
    /\ Returned =>
         /\ runPulls.v = MergedOnBase(AllPRs)
         /\ message = [form |-> "merged", found |-> Len(MergedOnBase(AllPRs))]
    /\ exitCode = Null \/ CandidateScanFailed

\* C8 witness: the marker search failed, yet the candidates were returned,
\* among them a pull request of the second page whose title holds a version.
C8_Witness ==
  /\ MarkerSearchFailed
  /\ Returned
  /\ exitCode = Null
  /\ Len(listing) = 2
  /\ TitleIsVersioned[listing[2][1].title]
  /\ listing[2][1] \in CandidateSet

\* C9: after a failed page request of the candidate scan the run has ended
\* with exit status 1, nothing was returned to run() and no later step
\* (selection and what follows it) took place.
C9_CandidateFailureFatal ==
  CandidateScanFailed =>
    /\ exitCode = Num(1)
    /\ pc = "exit"
    /\ runPulls = Null
    /\ message = Null
    /\ selectedPRs = <<>>
    /\ ~ENABLED Next

\* C9 witness: the request of the second page failed after the first page
\* had given a candidate.
C9_Witness ==
  /\ CandidateScanFailed
  /\ page = 2
  /\ Len(pulls) = 1

\* C10: the count summary gives N, the number of candidates returned; it
\* gives an excluded count exactly when a marker was found, and that count
\* is the number of distinct numbers the marker's description cites.
C10_CountSummary ==
  Returned =>
    /\ message.found = Len(runPulls.v)
    /\ (message.form = "new merged, excluding") = MarkerFound
    /\ (message.form = "merged") = ~MarkerFound
    /\ MarkerFound =>
         message.excluded =
           Cardinality(extractPRNumbersFromDescription(latestReleasePR.body))

\* C10 witness: the marker's description cites two distinct numbers (one of
\* them twice), the summary says 2 were excluded, and a pull request with a
\* cited number is among the candidates.
C10_Witness ==
  /\ Returned
  /\ MarkerFound
  /\ latestReleasePR.body = CitingBody
  /\ message.excluded = 2
  /\ \E pr \in CandidateSet : pr.number \in AnnouncedNumbers

\* ------------------------------------------------------------------------
\* The Identifier Extractor on its own
\* ------------------------------------------------------------------------

\* the characters of the descriptions tried: the three notations, the label
\* in both cases, and digits
TextAlphabet == {"#", "(", ")", "P", "R", "p", ":", " ", "1", "2"}

\* the state of run() while a function is taken on its own
RunIdle ==
  /\ listing = << <<>> >>
  /\ baseBranch = Undefined
  /\ page = 1
  /\ latestReleasePR = Null
  /\ includedPRNumbers = {}
  /\ pulls = <<>>
  /\ message = Null
  /\ runPulls = Null
  /\ selectedPRs = <<>>
  /\ summaryType = Null
  /\ summary = Null
  /\ exitCode = Null
  /\ log = {}
  /\ requests = <<>>

runVars ==
  <<listing, baseBranch, page, latestReleasePR, includedPRNumbers, pulls,
    message, runPulls, selectedPRs, summaryType, summary, exitCode, log,
    requests>>

\* any description: absent, or a text of up to MaxTextLen characters
InitExtract ==
  /\ RunIdle
  /\ TokensReady
  /\ pc = "extract"
  /\ \/ input \in {Null, Undefined}
     \/ \E n \in 0..MaxTextLen : \E txt \in [1..n -> TextAlphabet] :
          input = Str(txt)
  /\ output = Null

\* extractPRNumbersFromDescription(input) is called and returns
ExtractCall ==
  /\ pc = "extract"
  /\ output' = [t |-> "set", v |-> extractPRNumbersFromDescription(input)]
  /\ pc' = "extracted"
  /\ UNCHANGED <<tokenVars, runVars, input>>

NextExtract == ExtractCall

SpecExtract == InitExtract /\ [][NextExtract]_vars

\* the digits at position i of d are right after a label: a letter of Ps, a
\* letter of Rs, an optional colon and any white space
Labelled(d, i, Ps, Rs) ==
  \E k \in 1..i :
    /\ \A w \in k..(i - 1) : d[w] \in SpaceChars
    /\ \E c \in {0, 1} :
         /\ k - 2 - c >= 1
         /\ d[k - 2 - c] \in Ps
         /\ d[k - 1 - c] \in Rs
         /\ (c = 1 => d[k - 1] = ":")

\* the integers d cites as #N (which covers (#N)) or as a bare integer right
\* after a label spelled with a letter of Ps and a letter of Rs
Cited(d, Ps, Rs) ==
  {ParseInt(Sub(d, i, DigitRunEnd(d, i))) :
     i \in {j \in 1..Len(d) :
              /\ d[j] \in Digits
              /\ \/ j >= 2 /\ d[j - 1] = "#"
                 \/ Labelled(d, j, Ps, Rs)}}

\* the set of numbers the extractor returned
Extracted == {e.v : e \in output.v}

\* C11 as claimed: the extractor returns exactly the integers cited as #N,
\* (#N) or after a PR label in any letter case, and the empty set for an
\* empty or absent text.
C11_CitationsAnyCase ==
  pc = "extracted" =>
    IF input \in {Null, Undefined} THEN Extracted = {}
    ELSE Extracted = Cited(input.v, {"P", "p"}, {"R", "r"})

\* C11 amended: the extractor returns exactly the integers cited as #N,
\* (#N) or after the label PR in upper case, duplicates collapsed, and the
\* empty set for an empty or absent text.
C11_CitationsUpperCase ==
  pc = "extracted" =>
    /\ \A e \in output.v : e.t = "number"
    /\ IF input \in {Null, Undefined} THEN Extracted = {}
       ELSE Extracted = Cited(input.v, {"P"}, {"R"})

\* C11 witness: of "pR:1" nothing is extracted, the label not being PR.
C11_Witness ==
  /\ pc = "extracted"
  /\ input = Str(<<"p", "R", ":", "1">>)
  /\ Extracted = {}

\* ------------------------------------------------------------------------
\* The Version-Tag Matcher on its own
\* ------------------------------------------------------------------------

\* the characters of the titles tried: digits with and without a leading
\* zero, the dot, a letter, and the two signs that open a suffix
TitleAlphabet == {"0", "1", ".", "v", "-", "+"}

\* any title of up to MaxTitleLen characters
InitMatch ==
  /\ RunIdle
  /\ TokensReady
  /\ pc = "match"
  /\ \E n \in 0..MaxTitleLen : \E txt \in [1..n -> TitleAlphabet] :
       input = Str(txt)
  /\ output = Null

\* semverPattern.test(input) is called and returns
MatchCall ==
  /\ pc = "match"
  /\ output' = [t |-> "boolean", v |-> SemverTest(input.v)]
  /\ pc' = "matched"
  /\ UNCHANGED <<tokenVars, runVars, input>>

NextMatch == MatchCall

SpecMatch == InitMatch /\ [][NextMatch]_vars

\* a non-negative integer written without a superfluous leading zero
PlainNumber(y) ==
  /\ Len(y) >= 1
  /\ \A i \in 1..Len(y) : y[i] \in Digits
  /\ (Len(y) > 1 => y[1] # "0")

\* x is MAJOR.MINOR.PATCH
PlainVersion(x) ==
  \E a \in 1..Len(x) : \E b \in (a + 1)..Len(x) :
    /\ x[a] = "."
    /\ x[b] = "."
    /\ PlainNumber(Sub(x, 1, a - 1))
    /\ PlainNumber(Sub(x, a + 1, b - 1))
    /\ PlainNumber(Sub(x, b + 1, Len(x)))

\* C12 as claimed: the matcher accepts a title exactly when the title has a
\* substring MAJOR.MINOR.PATCH without superfluous leading zeros, wherever
\* that substring lies, also right after a letter.
C12_SubstringSearch ==
  pc = "matched" =>
    (output.v <=>
       \E i \in 1..Len(input.v) : \E j \in i..Len(input.v) :
         PlainVersion(Sub(input.v, i, j)))

\* C12 amended: the matcher accepts a title exactly when the title has a
\* substring MAJOR.MINOR.PATCH without superfluous leading zeros that has no
\* letter, digit or underscore right before it and none right after it.
C12_DelimitedVersion ==
  pc = "matched" =>
    (output.v <=>
       \E i \in 1..Len(input.v) : \E j \in i..Len(input.v) :
         /\ PlainVersion(Sub(input.v, i, j))
         /\ ~IsWordAt(input.v, i - 1)
         /\ ~IsWordAt(input.v, j + 1))

\* C12 witness: "v1.0.0" is not accepted.
C12_Witness ==
  /\ pc = "matched"
  /\ input = Str(<<"v", "1", ".", "0", ".", "0">>)
  /\ output.v = FALSE

\* ------------------------------------------------------------------------
\* Properties of the two scans
\* ------------------------------------------------------------------------

\* the pages one scan has requested, in the order of the requests
PagesRequested(scan) ==
  LET mine == SelectSeq(requests, LAMBDA r : r.scan = scan)
  IN [i \in 1..Len(mine) |-> mine[i].page]

\* the pages 1 to n in order
UpTo(n) == [i \in 1..n |-> i]

\* the position in the listing of its first entry with a version in the title
FirstVersioned ==
  CHOOSE i \in 1..Len(AllPRs) :
    /\ TitleIsVersioned[AllPRs[i].title]
    /\ \A j \in 1..(i - 1) : ~TitleIsVersioned[AllPRs[j].title]

\* the page of the listing that holds the entry at position i
PageOf(i) ==
  CHOOSE p \in 1..Len(listing) :
    /\ Len(Flatten(SubSeq(listing, 1, p - 1))) < i
    /\ i <= Len(Flatten(SubSeq(listing, 1, p)))

\* C13: the marker search requests the pages one at a time in listing
\* order; the marker it returns is the first entry of the listing whose
\* title matches, and no page after the one holding it was requested; it
\* returns no marker only after every page was read without a match, or
\* after a failed request.
C13_FirstMatchStops ==
  /\ \E k \in 0..Len(listing) : PagesRequested("marker") = UpTo(k)
  /\ pc = "getLatestReleasePR" =>
       /\ Len(PagesRequested("marker")) = page - 1
       /\ \A pr \in Range(Flatten(SubSeq(listing, 1, page - 1))) :
            ~TitleIsVersioned[pr.title]
  /\ MarkerFound =>
       /\ ~NoVersionedTitle
       /\ latestReleasePR = AllPRs[FirstVersioned]
       /\ PagesRequested("marker") = UpTo(PageOf(FirstVersioned))
  /\ (pc # "getLatestReleasePR" /\ ~MarkerFound /\ ~MarkerSearchFailed) =>
       /\ NoVersionedTitle
       /\ PagesRequested("marker") = UpTo(Len(listing))

\* C13 witness: both entries have a version in the title, each on a page of
\* its own; the first is the marker and the second page was not requested
\* by the marker search.
C13_Witness ==
  /\ Returned
  /\ Len(listing) = 2
  /\ TitleIsVersioned[listing[1][1].title]
  /\ TitleIsVersioned[listing[2][1].title]
  /\ latestReleasePR = listing[1][1]
  /\ PagesRequested("marker") = <<1>>

\* C14: the candidate scan requests every page of a fresh pagination once,
\* in order; what it returns is the per-page filter results joined in page
\* order, so the entries returned are those the filter keeps of the whole
\* listing, however the listing is cut into pages and ordered.
C14_EveryPageOnce ==
  /\ pc = "fetchPullRequests" =>
       /\ PagesRequested("candidates") = UpTo(page - 1)
       /\ pulls = relevantPRs(Flatten(SubSeq(listing, 1, page - 1)),
                              latestReleasePR, includedPRNumbers, baseBranch)
  /\ Returned =>
       /\ PagesRequested("candidates") = UpTo(Len(listing))
       /\ runPulls.v = relevantPRs(AllPRs, latestReleasePR,
                                   includedPRNumbers, baseBranch)
       /\ CandidateSet =
            {pr \in Range(AllPRs) :
               relevantPR(pr, latestReleasePR, includedPRNumbers, baseBranch)}

\* C14 witness: two pages, each of which gave one candidate.
C14_Witness ==
  /\ Returned
  /\ Len(listing) = 2
  /\ runPulls.v = <<listing[1][1], listing[2][1]>>

\* ------------------------------------------------------------------------
\* A marker that was closed without merging
\* ------------------------------------------------------------------------

\* C17: a pull request closed without merging whose title matches and that
\* is the first match of the listing is taken as the marker; step (b) then
\* discards nothing for its merge time, still leaves the marker out, and the
\* marker's description still gives the announced set and the excluded
\* count.
C17_UnmergedMarker ==
  /\ ( /\ pc # "getLatestReleasePR"
       /\ ~MarkerSearchFailed
       /\ ~NoVersionedTitle
       /\ AllPRs[FirstVersioned].merged_at = Null ) =>
     latestReleasePR = AllPRs[FirstVersioned]
  /\ (MarkerFound /\ latestReleasePR.merged_at = Null) =>
       /\ includedPRNumbers =
            extractPRNumbersFromDescription(latestReleasePR.body)
       /\ \A i \in 1..Len(pulls) : pulls[i].id # latestReleasePR.id
       /\ Returned =>
            /\ \A pr \in Range(AllPRs) :
                 ( /\ pr.merged_at # Null
                   /\ pr.base.ref = baseBranch
                   /\ pr.number \notin AnnouncedNumbers ) =>
                 pr \in CandidateSet
            /\ message.form = "new merged, excluding"
            /\ message.excluded = Cardinality(AnnouncedNumbers)

\* C17 witness: the marker was closed without merging and cites two numbers;
\* a pull request merged at the earliest time is a candidate and the summary
\* says 2 were excluded.
C17_Witness ==
  /\ Returned
  /\ MarkerFound
  /\ latestReleasePR.merged_at = Null
  /\ latestReleasePR.body = CitingBody
  /\ message.excluded = 2
  /\ \E pr \in CandidateSet :
       pr.merged_at = Timestamp(1) /\ pr.number \notin AnnouncedNumbers

\* ------------------------------------------------------------------------
\* The summary
\* ------------------------------------------------------------------------

\* the language-model call failed
SummaryFailed == "Failed to generate summary" \in log

\* the operator chose the plain listing
SummarySkipped == summaryType = Str("list")

\* the numbers that follow the # signs of a text, in the order of the text
NumbersListed(txt) ==
  LET at == {i \in 1..Len(txt) : txt[i] = "#"}
      nth(k) == CHOOSE i \in at : Cardinality({j \in at : j < i}) = k - 1
  IN [k \in 1..Cardinality(at) |->
        ParseInt(Sub(txt, nth(k) + 1, DigitRunEnd(txt, nth(k) + 1)))]

\* the text is the listing of the selection: one line per selected pull
\* request, in the order of the selection
IsListingOfSelection(s) ==
  /\ s = Str(FallbackListing(selectedPRs))
  /\ Len(SelectSeq(s.v, LAMBDA c : c = "\n")) = Len(selectedPRs) - 1
  /\ NumbersListed(s.v) = [k \in 1..Len(selectedPRs) |-> selectedPRs[k].number]

\* C15 as claimed: once the summary was skipped or the language-model call
\* has failed (and the question that follows is answered), the summary is
\* the listing of the selection and the run is at the version prompt.
C15_AlwaysFallsBack ==
  ((SummarySkipped \/ SummaryFailed) /\ pc # "useFallback") =>
    /\ pc = "versionPrompt"
    /\ IsListingOfSelection(summary)

\* C15 amended: when the summary was skipped, or the language-model call
\* has failed and the operator accepted the simple list, the summary is the
\* listing of the selection and the run is at the version prompt; when the
\* operator declined, the run has ended with exit status 1 and no summary.
C15_FallsBackUnlessDeclined ==
  /\ SummarySkipped => pc = "versionPrompt" /\ IsListingOfSelection(summary)
  /\ SummaryFailed =>
       \/ pc = "useFallback" /\ summary = Null
       \/ pc = "versionPrompt" /\ IsListingOfSelection(summary)
       \/ pc = "exit" /\ exitCode = Num(1) /\ summary = Null

\* C15 witness: the language-model call failed, the operator accepted the
\* simple list, and the summary lists the two selected pull requests.
C15_Witness ==
  /\ SummaryFailed
  /\ pc = "versionPrompt"
  /\ Len(selectedPRs) = 2
  /\ IsListingOfSelection(summary)

\* ------------------------------------------------------------------------
\* A release made by one run, met by a later run
\* ------------------------------------------------------------------------

VersionAlphabet == {"0", "1", "."}

\* semverRegex.test(v) of the version prompt: /^\d+\.\d+\.\d+$/
semverRegexTest(v) ==
  LET parts == SplitDots(v)
  IN /\ Len(parts) = 3
     /\ \A k \in 1..3 :
          /\ Len(parts[k]) >= 1
          /\ \A i \in 1..Len(parts[k]) : parts[k][i] \in Digits

\* `Release: Version ${version}`
VersionTitle(version) ==
  <<"R","e","l","e","a","s","e",":"," ","V","e","r","s","i","o","n"," ">>
    \o version

InitRoundTrip ==
  /\ RunIdle
  /\ TokensReady
  /\ pc = "versionPrompt"
  /\ \E n \in 0..MaxVersionLen : \E txt \in [1..n -> VersionAlphabet] :
       input = Str(txt)
  /\ output = Null

\* the version and confirm questions of run(): a version the validator
\* refuses is asked for again; a refused confirmation cancels
VersionPrompt ==
  /\ pc = "versionPrompt"
  /\ IF semverRegexTest(input.v)
       THEN \E confirm \in BOOLEAN :
              pc' = IF confirm THEN "createReleasePR" ELSE "cancelled"
       ELSE pc' = "askAgain"
  /\ UNCHANGED <<tokenVars, runVars, input, output>>

\* createReleasePR: the title given to the new pull request
CreateReleasePR ==
  /\ pc = "createReleasePR"
  /\ output' = Str(VersionTitle(input.v))
  /\ pc' = "created"
  /\ UNCHANGED <<tokenVars, runVars, input>>

\* getLatestReleasePR of a later run meets the pull request, now closed
LaterRunTest ==
  /\ pc = "created"
  /\ output' = [t |-> "boolean", v |-> SemverTest(output.v)]
  /\ pc' = "laterRun"
  /\ UNCHANGED <<tokenVars, runVars, input>>

NextRoundTrip ==
  \/ VersionPrompt
  \/ CreateReleasePR
  \/ LaterRunTest

SpecRoundTrip == InitRoundTrip /\ [][NextRoundTrip]_vars

\* C16 as claimed: every release this tool has created under a version its
\* prompt accepted is recognised by the Version-Tag Matcher of a later run.
C16_RoundTrip ==
  pc = "laterRun" => output = [t |-> "boolean", v |-> TRUE]

\* ------------------------------------------------------------------------
\* The token phase of run()
\* ------------------------------------------------------------------------

InitTokens ==
  /\ RunIdle
  /\ input = Null
  /\ output = Null
  /\ pc = "initializeTokens"
  /\ env \in [EnvKeys -> EnvValues]
  /\ gitConfig \in [GitKeys -> GitValues]
  /\ \E key \in OptionKeys : options = [openaiKey |-> key]
  /\ githubToken = Undefined
  /\ openaiToken = Undefined
  /\ octokit = Null
  /\ openai = Null
  /\ calls = <<>>

\* what the token phase leaves alone
afterTokens ==
  <<listing, baseBranch, page, latestReleasePR, includedPRNumbers, pulls,
    message, runPulls, selectedPRs, summaryType, summary, requests, input,
    output, env, options, octokit, openai>>

\* a call of configureToken: on success `token` of the outcome goes where
\* `keep` says and the run is at `next`; when saving fails, the failure is
\* reported and the process exits with status 1
ConfigureToken(config, next, keep) ==
  /\ \E o \in ConfigureOutcomes(config) :
       /\ calls' = Append(calls, Call(config, o))
       /\ gitConfig' = o.git
       /\ IF o.ok
            THEN /\ pc' = next
                 /\ githubToken' =
                      IF keep = "githubToken" THEN o.token ELSE githubToken
                 /\ openaiToken' =
                      IF keep = "openaiToken" THEN o.token ELSE openaiToken
                 /\ UNCHANGED <<exitCode, log>>
            ELSE /\ pc' = "exit"
                 /\ exitCode' = Num(1)
                 /\ log' = log \cup {"Failed to save token"}
                 /\ UNCHANGED <<githubToken, openaiToken>>
  /\ UNCHANGED afterTokens

\* const { githubToken } = await initializeTokens(): the GitHub token
FirstGitHubToken ==
  /\ pc = "initializeTokens"
  /\ ConfigureToken(GitHubConfig, "firstOpenAI", "githubToken")

\* the same call of initializeTokens: the OpenAI token, which run() drops
FirstOpenAIToken ==
  /\ pc = "firstOpenAI"
  /\ ConfigureToken(OpenAIConfig, "openaiKey", "nothing")

\* let openaiToken = options.openaiKey; if (!openaiToken) ...
TakeOption ==
  /\ pc = "openaiKey"
  /\ openaiToken' = options.openaiKey
  /\ pc' = IF Truthy(options.openaiKey) THEN "clients" ELSE "secondGitHub"
  /\ UNCHANGED <<afterTokens, gitConfig, githubToken, calls, exitCode, log>>

\* const tokens = await initializeTokens(): the GitHub token once more,
\* which run() drops
SecondGitHubToken ==
  /\ pc = "secondGitHub"
  /\ ConfigureToken(GitHubConfig, "secondOpenAI", "nothing")

\* openaiToken = tokens.openaiToken
SecondOpenAIToken ==
  /\ pc = "secondOpenAI"
  /\ ConfigureToken(OpenAIConfig, "clients", "openaiToken")

\* new Octokit({ auth: githubToken }), new OpenAI({ apiKey: openaiToken })
InitializeClients ==
  /\ pc = "clients"
  /\ octokit' = [auth |-> githubToken]
  /\ openai' = [apiKey |-> openaiToken]
  /\ pc' = "ready"
  /\ UNCHANGED <<listing, baseBranch, page, latestReleasePR,
                 includedPRNumbers, pulls, message, runPulls, selectedPRs,
                 summaryType, summary, requests, input, output, env,
                 options, gitConfig, githubToken, openaiToken, calls,
                 exitCode, log>>

NextTokens ==
  \/ FirstGitHubToken
  \/ FirstOpenAIToken
  \/ TakeOption
  \/ SecondGitHubToken
  \/ SecondOpenAIToken
  \/ InitializeClients

SpecTokens == InitTokens /\ [][NextTokens]_vars

\* --openai-key was given
OptionSupplied == options.openaiKey # Undefined

\* the calls of configureToken made for the OpenAI token
OpenAICalls == SelectSeq(calls, LAMBDA c : c.name = "OpenAI")

\* the sources of a token, in their order
Chain == <<"env", "git config", "prompt", "save">>

\* C18 as claimed: with --openai-key given, configureToken is never called
\* for the OpenAI token (so the run cannot have exited over saving one) and
\* the language-model client holds exactly the given key; without the
\* option, every call of configureToken went through environment, git
\* config, prompt and saving in that order, stopping at the first that
\* gave a token.
C18_OptionBypassesChain ==
  /\ OptionSupplied =>
       /\ OpenAICalls = <<>>
       /\ openai # Null => openai.apiKey = options.openaiKey
  /\ ~OptionSupplied =>
       \A i \in 1..Len(calls) :
         calls[i].steps = SubSeq(Chain, 1, Len(calls[i].steps))

====
